---- MODULE Spec2Model ----
(***************************************************************************)
(* The Michael-Scott queue (ms-queue/src/queue.rs) and the Treiber stack   *)
(* (treiber-stack/src/stack.rs) over epoch-style deferred reclamation.     *)
(* One step of a thread is one access to shared memory (a load, a store, a *)
(* compare-and-swap, a pin, a retire); thread-private computation is       *)
(* folded into the access that precedes it.                                *)
(***************************************************************************)
EXTENDS Naturals, Sequences, FiniteSets, TLC

\* ---------------------------------------------------------------- bounds
\* The threads of the concurrent tests (queue.rs 228: three receivers; 246-276:
\* two producers and a consumer).
NumThreads == 3
\* Operations started, all threads together, in a concurrent run.
MaxOps == 4
\* Operations started in a run of one thread alone.
MaxSeqOps == 6
\* Operations started, all threads together, in a run checked for progress.
MaxLiveOps == 3
\* Values each producer of a test pushes, and operations started in a test.
MaxTestPush == 2
MaxTestOps == 6
\* Rounds of push followed by try_pop that each thread of the stack's test makes.
MaxPairs == 2
\* Operations started in the stack's test: two threads' rounds and the final try_pop.
MaxPairOps == 9

Threads == 1..NumThreads
\* One address per node that can be alive at once: every push plus the sentinel.
Addrs == 1..(MaxSeqOps + 1)

\* A run gives every thread its budget of pushes and of try_pops, and all threads
\* together a budget of operations; alike are the threads with the same part.
AnyRun ==
    [ops |-> MaxOps, alike |-> Threads,
     push |-> [t \in Threads |-> MaxOps], pop |-> [t \in Threads |-> MaxOps]]
LiveRun ==
    [ops |-> MaxLiveOps, alike |-> Threads,
     push |-> [t \in Threads |-> MaxLiveOps], pop |-> [t \in Threads |-> MaxLiveOps]]
SeqRun ==
    [ops |-> MaxSeqOps, alike |-> {},
     push |-> [t \in Threads |-> IF t = 1 THEN MaxSeqOps ELSE 0],
     pop |-> [t \in Threads |-> IF t = 1 THEN MaxSeqOps ELSE 0]]

\* ------------------------------------------------------------- pointers
\* A pointer is <<address, generation>>.  Compare-and-swap and == on Shared
\* compare the address only; the generation is the allocation the pointer was
\* taken from and decides whether a dereference is of the node it was loaded for.
Null == <<0, 0>>
AddrOf(p) == p[1]
SameAddr(p, q) == p[1] = q[1]

\* The payload of the sentinel: MaybeUninit::uninit().
NoVal == <<0, 0>>
\* A pop that won its compare-and-swap and has not yet read the payload.
Pending == <<0, 1>>
\* test::push_try_pop_spmc: one producer, the other threads consume.
SpmcRun ==
    [ops |-> MaxTestOps, alike |-> Threads \ {1},
     push |-> [t \in Threads |-> IF t = 1 THEN MaxTestPush ELSE 0],
     pop |-> [t \in Threads |-> IF t = 1 THEN 0 ELSE MaxTestPush]]
\* test::push_try_pop_mpmc: two producers and one consumer, which calls try_pop
\* once for every value pushed.
MpmcRun ==
    [ops |-> MaxTestOps, alike |-> Threads \ {NumThreads},
     push |-> [t \in Threads |-> IF t < NumThreads THEN MaxTestPush ELSE 0],
     pop |-> [t \in Threads |-> IF t < NumThreads THEN 0 ELSE 2 * MaxTestPush]]

\* stack_tests::push: every spawned thread pushes and then pops, round after
\* round; the last thread is the test's own, which pops once after the others
\* have been joined.
PairRun ==
    [ops |-> MaxPairOps, alike |-> Threads \ {NumThreads},
     push |-> [t \in Threads |-> IF t < NumThreads THEN MaxPairs ELSE 0],
     pop |-> [t \in Threads |-> IF t < NumThreads THEN MaxPairs ELSE 1]]

VARIABLES
    coll,      \* which collection is under test: "queue" or "stack"
    head,      \* Queue.head / Stack.head
    tail,      \* Queue.tail
    mem,       \* the heap: address -> node and its allocation state
    garbage,   \* nodes passed to defer_destroy and not yet destroyed
    pc,        \* each thread's position
    loc,       \* each thread's locals: new, head_snapshot, tail_snapshot, next
    npush,     \* pushes started by each thread
    npop,      \* try_pops started by each thread
    nops,      \* operations started, all threads
    run,       \* the run: its threads and its operation budget
    hist,      \* the operations in the order of their linearization points
    err,       \* memory errors committed so far
    halted     \* a thread stopped for ever (the suspended linker), or 0

vars == <<coll, run, head, tail, mem, garbage, pc, loc, npush, npop, nops, hist, err, halted>>

NoLoc == [new |-> Null, hs |-> Null, ts |-> Null, nx |-> Null]

FreeNode == [data |-> NoVal, next |-> Null, st |-> "free", gen |-> 0]

\* ------------------------------------------------------------ the heap
\* Owned::new(Node { data, next: Atomic::null() })
AllocNode(m, a, v) ==
    [m EXCEPT ![a] = [data |-> v, next |-> Null, st |-> "live", gen |-> @.gen + 1]]

\* The addresses the allocator may hand out: any freed one, or a fresh one (the
\* fresh ones are interchangeable, so the lowest stands for them all).
AllocChoices ==
    {a \in Addrs :
        /\ mem[a].st = "free"
        /\ mem[a].gen = 0 => \A b \in Addrs : b < a => mem[b].gen # 0}

\* The pointer still refers to the allocation it was loaded from.
Valid(p) ==
    /\ AddrOf(p) \in Addrs
    /\ mem[AddrOf(p)].st # "free"
    /\ mem[AddrOf(p)].gen = p[2]

\* What a dereference adds to the errors.
DerefErr(p) ==
    IF Valid(p) THEN {} ELSE IF p = Null THEN {"null_deref"} ELSE {"use_after_free"}

\* The outcomes of reading p's next-link: the link, or, through a dangling
\* pointer, whatever the memory holds or nothing.
ReadNext(p) ==
    IF Valid(p) THEN {mem[AddrOf(p)].next}
    ELSE IF AddrOf(p) \in Addrs THEN {mem[AddrOf(p)].next, Null} ELSE {Null}

\* The outcomes of ptr::read of p's payload.
ReadData(p) ==
    IF Valid(p) THEN {mem[AddrOf(p)].data}
    ELSE IF AddrOf(p) \in Addrs THEN {mem[AddrOf(p)].data, NoVal} ELSE {NoVal}

\* A compare-and-swap that succeeded against a snapshot of another allocation.
AbaErr(cur, snap) == IF cur # snap THEN {"aba"} ELSE {}

\* ------------------------------------------------------- reclamation
\* A thread holds a guard from the start of an operation to its return.
Pinned(t) == pc[t] # "idle"

\* Guard::defer_destroy under a pinned guard: the node waits for every guard
\* held at this moment to be dropped.
Retire(g, p) == g \cup {[a |-> AddrOf(p), blockers |-> {u \in Threads : Pinned(u)}]}

\* What retiring p adds to the errors: only a live node may be retired.
RetireErr(p) ==
    IF AddrOf(p) \in Addrs /\ mem[AddrOf(p)].st = "live" /\ mem[AddrOf(p)].gen = p[2]
    THEN {} ELSE {"double_retire"}

MarkRetired(m, p) ==
    IF AddrOf(p) \in Addrs THEN [m EXCEPT ![AddrOf(p)].st = "retired"] ELSE m

\* Guard::defer_destroy under the unprotected guard destroys the node at once.
DestroyNow(m, p) ==
    IF AddrOf(p) \in Addrs THEN [m EXCEPT ![AddrOf(p)].st = "free"] ELSE m

\* What destroying p adds to the errors.
DestroyErr(p) ==
    IF AddrOf(p) \in Addrs /\ mem[AddrOf(p)].st # "free" /\ mem[AddrOf(p)].gen = p[2]
    THEN {} ELSE {"double_free"}

\* Dropping t's guard.
Unpin(g, t) == {[a |-> e.a, blockers |-> e.blockers \ {t}] : e \in g}

\* The reclamation subsystem destroys a retired node no guard can observe.
Collect(e) ==
    /\ e \in garbage
    /\ e.blockers = {}
    /\ garbage' = garbage \ {e}
    /\ mem' = [mem EXCEPT ![e.a].st = "free"]
    /\ err' = err \cup (IF mem[e.a].st = "free" THEN {"double_free"} ELSE {})
    /\ UNCHANGED <<coll, run, head, tail, pc, loc, npush, npop, nops, hist, halted>>

\* ------------------------------------------------------------ history
PushEv(t, v) == [op |-> "push", thr |-> t, val |-> v]
PopEv(t, v) == [op |-> "pop", thr |-> t, val |-> v]
EmptyEv(t) == [op |-> "empty", thr |-> t, val |-> NoVal]

\* The pop of t that awaits its payload receives v.
Deliver(h, t, v) ==
    [i \in 1..Len(h) |->
        IF h[i].op = "pop" /\ h[i].thr = t /\ h[i].val = Pending
        THEN PopEv(t, v) ELSE h[i]]

\* Threads with the same part are interchangeable: they are numbered in the
\* order of their first operation.
InTurn(t) ==
    IF t \in run.alike /\ (t - 1) \in run.alike
    THEN npush[t - 1] + npop[t - 1] > 0 ELSE TRUE

\* t may start another push, another try_pop.
MayPush(t) ==
    pc[t] = "idle" /\ nops < run.ops /\ npush[t] < run.push[t] /\ InTurn(t)
MayPop(t) ==
    pc[t] = "idle" /\ nops < run.ops /\ npop[t] < run.pop[t] /\ InTurn(t)

\* ------------------------------------------------------------ start
InitOf(colls, runs) ==
    /\ coll \in colls
    /\ run \in runs
    /\ mem = [a \in Addrs |->
                IF coll = "queue" /\ a = 1
                THEN [data |-> NoVal, next |-> Null, st |-> "live", gen |-> 1]
                ELSE FreeNode]
    /\ head = IF coll = "queue" THEN <<1, 1>> ELSE Null
    /\ tail = IF coll = "queue" THEN <<1, 1>> ELSE Null
    /\ garbage = {}
    /\ pc = [t \in Threads |-> "idle"]
    /\ loc = [t \in Threads |-> NoLoc]
    /\ npush = [t \in Threads |-> 0]
    /\ npop = [t \in Threads |-> 0]
    /\ nops = 0
    /\ hist = <<>>
    /\ err = {}
    /\ halted = 0

\* Either collection, called by interchangeable threads or by one thread alone.
Init == InitOf({"queue", "stack"}, {AnyRun, SeqRun})

\* Either collection, in the runs checked for progress.
LiveInit == InitOf({"queue", "stack"}, {LiveRun})

\* The queue under its concurrent tests.
TestInit == InitOf({"queue"}, {SpmcRun, MpmcRun})

\* t returns: its locals die and its guard is dropped.
Return(t) ==
    /\ pc' = [pc EXCEPT ![t] = "idle"]
    /\ loc' = [loc EXCEPT ![t] = NoLoc]

\* ------------------------------------------------------- Queue::push
\* The caller pins (test wrapper, queue.rs 145-148); push allocates the node,
\* private to the thread until it is linked, and loads tail for the first time.
QPushBegin(t) ==
    /\ coll = "queue" /\ MayPush(t)
    /\ \E a \in AllocChoices :
        /\ mem' = AllocNode(mem, a, <<t, npush[t] + 1>>)
        /\ loc' = [loc EXCEPT ![t].new = <<a, mem[a].gen + 1>>, ![t].ts = tail]
    /\ npush' = [npush EXCEPT ![t] = @ + 1]
    /\ nops' = nops + 1
    /\ pc' = [pc EXCEPT ![t] = "qpush_load_next"]
    /\ UNCHANGED <<coll, run, head, tail, garbage, npop, hist, err, halted>>

\* let tail_snapshot = self.tail.load(Acquire, guard), on a retry
QPushLoadTail(t) ==
    /\ pc[t] = "qpush_load_tail"
    /\ loc' = [loc EXCEPT ![t].ts = tail]
    /\ pc' = [pc EXCEPT ![t] = "qpush_load_next"]
    /\ UNCHANGED <<coll, run, head, tail, mem, garbage, npush, npop, nops, hist, err, halted>>

\* let next = tail_snapshot.deref().next.load(Acquire, guard); if !next.is_null()
QPushLoadNext(t) ==
    /\ pc[t] = "qpush_load_next"
    /\ \E n \in ReadNext(loc[t].ts) :
        /\ loc' = [loc EXCEPT ![t].nx = n]
        /\ pc' = [pc EXCEPT ![t] = IF n # Null THEN "qpush_help" ELSE "qpush_link"]
    /\ err' = err \cup DerefErr(loc[t].ts)
    /\ UNCHANGED <<coll, run, head, tail, mem, garbage, npush, npop, nops, hist, halted>>

\* A push that finds tail stale and retries without advancing it.
QPushHelpSkip(t) ==
    /\ pc[t] = "qpush_help"
    /\ pc' = [pc EXCEPT ![t] = "qpush_load_tail"]
    /\ UNCHANGED <<coll, run, head, tail, mem, garbage, loc, npush, npop, nops, hist, err, halted>>

\* A push that finds tail stale and walks on to the next node by itself,
\* leaving tail where it is.
QPushHelpWalk(t) ==
    /\ pc[t] = "qpush_help"
    /\ loc' = [loc EXCEPT ![t].ts = loc[t].nx]
    /\ pc' = [pc EXCEPT ![t] = "qpush_load_next"]
    /\ UNCHANGED <<coll, run, head, tail, mem, garbage, npush, npop, nops, hist, err, halted>>

\* let _ = self.tail.compare_and_set(tail_snapshot, next); continue
QPushHelp(t) ==
    /\ pc[t] = "qpush_help"
    /\ IF SameAddr(tail, loc[t].ts)
       THEN tail' = loc[t].nx /\ err' = err \cup AbaErr(tail, loc[t].ts)
       ELSE UNCHANGED <<tail, err>>
    /\ pc' = [pc EXCEPT ![t] = "qpush_load_tail"]
    /\ UNCHANGED <<coll, run, head, mem, garbage, loc, npush, npop, nops, hist, halted>>

\* A push that retries its link without loading tail again.
QPushLinkSpin(t) ==
    /\ pc[t] = "qpush_link"
    /\ LET ts == loc[t].ts
           a == AddrOf(ts) IN
       IF a \in Addrs /\ mem[a].next = Null
       THEN /\ mem' = [mem EXCEPT ![a].next = loc[t].new]
            /\ hist' = Append(hist, PushEv(t, mem[AddrOf(loc[t].new)].data))
            /\ pc' = [pc EXCEPT ![t] = "qpush_swing"]
       ELSE UNCHANGED <<mem, hist, pc>>
    /\ err' = err \cup DerefErr(loc[t].ts)
    /\ UNCHANGED <<coll, run, head, tail, garbage, loc, npush, npop, nops, halted>>

\* A push that goes on to advance tail whether or not its link succeeded.
QPushLinkIgnoreResult(t) ==
    /\ pc[t] = "qpush_link"
    /\ LET ts == loc[t].ts
           a == AddrOf(ts) IN
       IF a \in Addrs /\ mem[a].next = Null
       THEN /\ mem' = [mem EXCEPT ![a].next = loc[t].new]
            /\ hist' = Append(hist, PushEv(t, mem[AddrOf(loc[t].new)].data))
       ELSE UNCHANGED <<mem, hist>>
    /\ pc' = [pc EXCEPT ![t] = "qpush_swing"]
    /\ err' = err \cup DerefErr(loc[t].ts)
    /\ UNCHANGED <<coll, run, head, tail, garbage, loc, npush, npop, nops, halted>>

\* tail_ref.next.compare_and_set(Shared::null(), new).is_ok()
QPushLink(t) ==
    /\ pc[t] = "qpush_link"
    /\ LET ts == loc[t].ts
           a == AddrOf(ts) IN
       IF a \in Addrs /\ mem[a].next = Null
       THEN /\ mem' = [mem EXCEPT ![a].next = loc[t].new]
            /\ hist' = Append(hist, PushEv(t, mem[AddrOf(loc[t].new)].data))
            /\ pc' = [pc EXCEPT ![t] = "qpush_swing"]
       ELSE /\ pc' = [pc EXCEPT ![t] = "qpush_load_tail"]
            /\ UNCHANGED <<mem, hist>>
    /\ err' = err \cup DerefErr(loc[t].ts)
    /\ UNCHANGED <<coll, run, head, tail, garbage, loc, npush, npop, nops, halted>>

\* A push that returns once its node is linked and leaves tail to the others.
QPushReturnNoSwing(t) ==
    /\ pc[t] = "qpush_swing"
    /\ Return(t)
    /\ garbage' = Unpin(garbage, t)
    /\ UNCHANGED <<coll, run, head, tail, mem, npush, npop, nops, hist, err, halted>>

\* let _ = self.tail.compare_and_set(tail_snapshot, new); break
\* and the caller's guard is dropped.
QPushSwing(t) ==
    /\ pc[t] = "qpush_swing"
    /\ IF SameAddr(tail, loc[t].ts)
       THEN tail' = loc[t].new /\ err' = err \cup AbaErr(tail, loc[t].ts)
       ELSE UNCHANGED <<tail, err>>
    /\ Return(t)
    /\ garbage' = Unpin(garbage, t)
    /\ UNCHANGED <<coll, run, head, mem, npush, npop, nops, hist, halted>>

\* ---------------------------------------------------- Queue::try_pop
\* A try_pop that takes its first snapshot from tail instead of head.
QPopBeginAtTail(t) ==
    /\ coll = "queue" /\ MayPop(t)
    /\ npop' = [npop EXCEPT ![t] = @ + 1]
    /\ nops' = nops + 1
    /\ loc' = [loc EXCEPT ![t].hs = tail]
    /\ pc' = [pc EXCEPT ![t] = "qpop_load_next"]
    /\ UNCHANGED <<coll, run, head, tail, mem, garbage, npush, hist, err, halted>>

\* The caller pins (test wrapper, queue.rs 157-160), and try_pop loads head for
\* the first time.
QPopBegin(t) ==
    /\ coll = "queue" /\ MayPop(t)
    /\ npop' = [npop EXCEPT ![t] = @ + 1]
    /\ nops' = nops + 1
    /\ loc' = [loc EXCEPT ![t].hs = head]
    /\ pc' = [pc EXCEPT ![t] = "qpop_load_next"]
    /\ UNCHANGED <<coll, run, head, tail, mem, garbage, npush, hist, err, halted>>

\* let head_snapshot = self.head.load(Acquire, guard), on a retry
QPopLoadHead(t) ==
    /\ pc[t] = "qpop_load_head"
    /\ loc' = [loc EXCEPT ![t].hs = head]
    /\ pc' = [pc EXCEPT ![t] = "qpop_load_next"]
    /\ UNCHANGED <<coll, run, head, tail, mem, garbage, npush, npop, nops, hist, err, halted>>

\* A try_pop that also takes the queue for empty while tail has not left head.
QPopLoadNextTailTest(t) ==
    /\ pc[t] = "qpop_load_next"
    /\ \E n \in ReadNext(loc[t].hs) :
        IF n = Null \/ SameAddr(tail, loc[t].hs)
        THEN /\ Return(t)
             /\ garbage' = Unpin(garbage, t)
             /\ hist' = Append(hist, EmptyEv(t))
        ELSE /\ loc' = [loc EXCEPT ![t].nx = n]
             /\ pc' = [pc EXCEPT ![t] = "qpop_load_tail"]
             /\ UNCHANGED <<garbage, hist>>
    /\ err' = err \cup DerefErr(loc[t].hs)
    /\ UNCHANGED <<coll, run, head, tail, mem, npush, npop, nops, halted>>

\* let next = head_snapshot.deref().next.load(Acquire, guard);
\* next.as_ref() is None: return None
QPopLoadNext(t) ==
    /\ pc[t] = "qpop_load_next"
    /\ \E n \in ReadNext(loc[t].hs) :
        IF n = Null
        THEN /\ Return(t)
             /\ garbage' = Unpin(garbage, t)
             /\ hist' = Append(hist, EmptyEv(t))
        ELSE /\ loc' = [loc EXCEPT ![t].nx = n]
             /\ pc' = [pc EXCEPT ![t] = "qpop_load_tail"]
             /\ UNCHANGED <<garbage, hist>>
    /\ err' = err \cup DerefErr(loc[t].hs)
    /\ UNCHANGED <<coll, run, head, tail, mem, npush, npop, nops, halted>>

\* let tail_snapshot = self.tail.load(Relaxed, guard); if tail_snapshot == head_snapshot
QPopLoadTail(t) ==
    /\ pc[t] = "qpop_load_tail"
    /\ loc' = [loc EXCEPT ![t].ts = tail]
    /\ pc' = [pc EXCEPT ![t] =
                IF SameAddr(tail, loc[t].hs) THEN "qpop_help" ELSE "qpop_cas_head"]
    /\ UNCHANGED <<coll, run, head, tail, mem, garbage, npush, npop, nops, hist, err, halted>>

\* A try_pop that sees tail at its head snapshot and does not advance it.
QPopHelpSkip(t) ==
    /\ pc[t] = "qpop_help"
    /\ pc' = [pc EXCEPT ![t] = "qpop_cas_head"]
    /\ UNCHANGED <<coll, run, head, tail, mem, garbage, loc, npush, npop, nops, hist, err, halted>>

\* let _ = self.tail.compare_and_set(tail_snapshot, next)
QPopHelp(t) ==
    /\ pc[t] = "qpop_help"
    /\ IF SameAddr(tail, loc[t].ts)
       THEN tail' = loc[t].nx /\ err' = err \cup AbaErr(tail, loc[t].ts)
       ELSE UNCHANGED <<tail, err>>
    /\ pc' = [pc EXCEPT ![t] = "qpop_cas_head"]
    /\ UNCHANGED <<coll, run, head, mem, garbage, loc, npush, npop, nops, hist, halted>>

\* A try_pop that stores the new head without comparing.
QPopStoreHead(t) ==
    /\ pc[t] = "qpop_cas_head"
    /\ head' = loc[t].nx
    /\ hist' = Append(hist, PopEv(t, Pending))
    /\ pc' = [pc EXCEPT ![t] = "qpop_retire"]
    /\ UNCHANGED <<coll, run, tail, mem, garbage, loc, npush, npop, nops, err, halted>>

\* A try_pop that swings head to its tail snapshot instead of head's successor.
QPopCasHeadToTail(t) ==
    /\ pc[t] = "qpop_cas_head"
    /\ IF SameAddr(head, loc[t].hs)
       THEN /\ head' = loc[t].ts
            /\ err' = err \cup AbaErr(head, loc[t].hs)
            /\ hist' = Append(hist, PopEv(t, Pending))
            /\ pc' = [pc EXCEPT ![t] = "qpop_retire"]
       ELSE /\ pc' = [pc EXCEPT ![t] = "qpop_load_head"]
            /\ UNCHANGED <<head, err, hist>>
    /\ UNCHANGED <<coll, run, tail, mem, garbage, loc, npush, npop, nops, halted>>

\* self.head.compare_and_set(head_snapshot, next).is_ok()
QPopCasHead(t) ==
    /\ pc[t] = "qpop_cas_head"
    /\ IF SameAddr(head, loc[t].hs)
       THEN /\ head' = loc[t].nx
            /\ err' = err \cup AbaErr(head, loc[t].hs)
            /\ hist' = Append(hist, PopEv(t, Pending))
            /\ pc' = [pc EXCEPT ![t] = "qpop_retire"]
       ELSE /\ pc' = [pc EXCEPT ![t] = "qpop_load_head"]
            /\ UNCHANGED <<head, err, hist>>
    /\ UNCHANGED <<coll, run, tail, mem, garbage, loc, npush, npop, nops, halted>>

\* A try_pop that retires the node head now points at, not the one it removed.
QPopRetireNext(t) ==
    /\ pc[t] = "qpop_retire"
    /\ garbage' = Retire(garbage, loc[t].nx)
    /\ mem' = MarkRetired(mem, loc[t].nx)
    /\ err' = err \cup RetireErr(loc[t].nx)
    /\ pc' = [pc EXCEPT ![t] = "qpop_read"]
    /\ UNCHANGED <<coll, run, head, tail, loc, npush, npop, nops, hist, halted>>

\* guard.defer_destroy(head_snapshot)
QPopRetire(t) ==
    /\ pc[t] = "qpop_retire"
    /\ garbage' = Retire(garbage, loc[t].hs)
    /\ mem' = MarkRetired(mem, loc[t].hs)
    /\ err' = err \cup RetireErr(loc[t].hs)
    /\ pc' = [pc EXCEPT ![t] = "qpop_read"]
    /\ UNCHANGED <<coll, run, head, tail, loc, npush, npop, nops, hist, halted>>

\* A try_pop that returns the payload of the node it removed, as the stack's does.
QPopReadOldHead(t) ==
    /\ pc[t] = "qpop_read"
    /\ \E v \in ReadData(loc[t].hs) : hist' = Deliver(hist, t, v)
    /\ err' = err \cup DerefErr(loc[t].hs)
    /\ Return(t)
    /\ garbage' = Unpin(garbage, t)
    /\ UNCHANGED <<coll, run, head, tail, mem, npush, npop, nops, halted>>

\* return Some(ptr::read(&next_node.data).assume_init()), and the caller's
\* guard is dropped.
QPopRead(t) ==
    /\ pc[t] = "qpop_read"
    /\ \E v \in ReadData(loc[t].nx) : hist' = Deliver(hist, t, v)
    /\ err' = err \cup DerefErr(loc[t].nx)
    /\ Return(t)
    /\ garbage' = Unpin(garbage, t)
    /\ UNCHANGED <<coll, run, head, tail, mem, npush, npop, nops, halted>>

QueueStep(t) ==
    \/ QPushBegin(t) \/ QPushLoadTail(t) \/ QPushLoadNext(t) \/ QPushHelp(t)
    \/ QPushLink(t) \/ QPushSwing(t)
    \/ QPopBegin(t) \/ QPopLoadHead(t) \/ QPopLoadNext(t) \/ QPopLoadTail(t)
    \/ QPopHelp(t) \/ QPopCasHead(t) \/ QPopRetire(t) \/ QPopRead(t)

\* ------------------------------------------------------- Stack::push
\* Owned::new(Node { data, next: null }); let guard = pin(); and the first
\* head_snapshot = self.head.load(Acquire); new_node.next.store(head_snapshot)
SPushBegin(t) ==
    /\ coll = "stack" /\ MayPush(t)
    /\ \E a \in AllocChoices :
        /\ mem' = [AllocNode(mem, a, <<t, npush[t] + 1>>) EXCEPT ![a].next = head]
        /\ loc' = [loc EXCEPT ![t].new = <<a, mem[a].gen + 1>>, ![t].hs = head]
    /\ npush' = [npush EXCEPT ![t] = @ + 1]
    /\ nops' = nops + 1
    /\ pc' = [pc EXCEPT ![t] = "spush_cas"]
    /\ UNCHANGED <<coll, run, head, tail, garbage, npop, hist, err, halted>>

\* A retry that reloads head and leaves the new node's next-link as it was.
SPushLoadHeadKeepNext(t) ==
    /\ pc[t] = "spush_load_head"
    /\ loc' = [loc EXCEPT ![t].hs = head]
    /\ pc' = [pc EXCEPT ![t] = "spush_cas"]
    /\ UNCHANGED <<coll, run, head, tail, mem, garbage, npush, npop, nops, hist, err, halted>>

\* let head_snapshot = self.head.load(Acquire); new_node.next.store(head_snapshot),
\* on a retry
SPushLoadHead(t) ==
    /\ pc[t] = "spush_load_head"
    /\ loc' = [loc EXCEPT ![t].hs = head]
    /\ mem' = [mem EXCEPT ![AddrOf(loc[t].new)].next = head]
    /\ pc' = [pc EXCEPT ![t] = "spush_cas"]
    /\ UNCHANGED <<coll, run, head, tail, garbage, npush, npop, nops, hist, err, halted>>

\* A push that returns when its compare-and-swap fails, dropping the node.
SPushCasGiveUp(t) ==
    /\ pc[t] = "spush_cas"
    /\ IF SameAddr(head, loc[t].hs)
       THEN /\ head' = loc[t].new
            /\ err' = err \cup AbaErr(head, loc[t].hs)
            /\ hist' = Append(hist, PushEv(t, mem[AddrOf(loc[t].new)].data))
       ELSE UNCHANGED <<head, err, hist>>
    /\ Return(t)
    /\ garbage' = Unpin(garbage, t)
    /\ UNCHANGED <<coll, run, tail, mem, npush, npop, nops, halted>>

\* A push that retries its compare-and-swap without loading head again.
SPushCasSpin(t) ==
    /\ pc[t] = "spush_cas"
    /\ IF SameAddr(head, loc[t].hs)
       THEN /\ head' = loc[t].new
            /\ err' = err \cup AbaErr(head, loc[t].hs)
            /\ hist' = Append(hist, PushEv(t, mem[AddrOf(loc[t].new)].data))
            /\ Return(t)
            /\ garbage' = Unpin(garbage, t)
       ELSE UNCHANGED <<head, err, hist, loc, garbage, pc>>
    /\ UNCHANGED <<coll, run, tail, mem, npush, npop, nops, halted>>

\* self.head.compare_and_set(head_snapshot, new_node): Ok => break (the guard is
\* dropped), Err(e) => new_node = e.new
SPushCas(t) ==
    /\ pc[t] = "spush_cas"
    /\ IF SameAddr(head, loc[t].hs)
       THEN /\ head' = loc[t].new
            /\ err' = err \cup AbaErr(head, loc[t].hs)
            /\ hist' = Append(hist, PushEv(t, mem[AddrOf(loc[t].new)].data))
            /\ Return(t)
            /\ garbage' = Unpin(garbage, t)
       ELSE /\ pc' = [pc EXCEPT ![t] = "spush_load_head"]
            /\ UNCHANGED <<head, err, hist, loc, garbage>>
    /\ UNCHANGED <<coll, run, tail, mem, npush, npop, nops, halted>>

\* ---------------------------------------------------- Stack::try_pop
\* head_snapshot = self.head.load(Acquire); head_snapshot.as_ref() is None:
\* return None, and the guard is dropped
SPopHead(t) ==
    IF head = Null
    THEN /\ Return(t)
         /\ garbage' = Unpin(garbage, t)
         /\ hist' = Append(hist, EmptyEv(t))
    ELSE /\ loc' = [loc EXCEPT ![t].hs = head]
         /\ pc' = [pc EXCEPT ![t] = "spop_load_next"]
         /\ UNCHANGED <<garbage, hist>>

\* let guard = pin(), and the first load of head
SPopBegin(t) ==
    /\ coll = "stack" /\ MayPop(t)
    /\ npop' = [npop EXCEPT ![t] = @ + 1]
    /\ nops' = nops + 1
    /\ SPopHead(t)
    /\ UNCHANGED <<coll, run, head, tail, mem, npush, err, halted>>

\* the load of head on a retry
SPopLoadHead(t) ==
    /\ pc[t] = "spop_load_head"
    /\ SPopHead(t)
    /\ UNCHANGED <<coll, run, head, tail, mem, npush, npop, nops, err, halted>>

\* A try_pop that reads the next-link of the node now at head instead of the
\* node of its snapshot.
SPopLoadNextFromHead(t) ==
    /\ pc[t] = "spop_load_next"
    /\ \E n \in ReadNext(head) : loc' = [loc EXCEPT ![t].nx = n]
    /\ err' = err \cup DerefErr(head)
    /\ pc' = [pc EXCEPT ![t] = "spop_cas"]
    /\ UNCHANGED <<coll, run, head, tail, mem, garbage, npush, npop, nops, hist, halted>>

\* let next = head.next.load(Acquire)
SPopLoadNext(t) ==
    /\ pc[t] = "spop_load_next"
    /\ \E n \in ReadNext(loc[t].hs) : loc' = [loc EXCEPT ![t].nx = n]
    /\ err' = err \cup DerefErr(loc[t].hs)
    /\ pc' = [pc EXCEPT ![t] = "spop_cas"]
    /\ UNCHANGED <<coll, run, head, tail, mem, garbage, npush, npop, nops, hist, halted>>

\* A try_pop that stores the new head without comparing.
SPopStoreHead(t) ==
    /\ pc[t] = "spop_cas"
    /\ head' = loc[t].nx
    /\ hist' = Append(hist, PopEv(t, Pending))
    /\ pc' = [pc EXCEPT ![t] = "spop_retire"]
    /\ UNCHANGED <<coll, run, tail, mem, garbage, loc, npush, npop, nops, err, halted>>

\* A try_pop that retires and returns whether or not its compare-and-swap won.
SPopCasIgnoreResult(t) ==
    /\ pc[t] = "spop_cas"
    /\ IF SameAddr(head, loc[t].hs)
       THEN head' = loc[t].nx /\ err' = err \cup AbaErr(head, loc[t].hs)
       ELSE UNCHANGED <<head, err>>
    /\ hist' = Append(hist, PopEv(t, Pending))
    /\ pc' = [pc EXCEPT ![t] = "spop_retire"]
    /\ UNCHANGED <<coll, run, tail, mem, garbage, loc, npush, npop, nops, halted>>

\* self.head.compare_and_set(head_snapshot, next).is_ok()
SPopCas(t) ==
    /\ pc[t] = "spop_cas"
    /\ IF SameAddr(head, loc[t].hs)
       THEN /\ head' = loc[t].nx
            /\ err' = err \cup AbaErr(head, loc[t].hs)
            /\ hist' = Append(hist, PopEv(t, Pending))
            /\ pc' = [pc EXCEPT ![t] = "spop_retire"]
       ELSE /\ pc' = [pc EXCEPT ![t] = "spop_load_head"]
            /\ UNCHANGED <<head, err, hist>>
    /\ UNCHANGED <<coll, run, tail, mem, garbage, loc, npush, npop, nops, halted>>

\* A try_pop that passes the unprotected guard to defer_destroy, as the
\* queue's teardown does: the node is destroyed at once.
SPopRetireUnprotected(t) ==
    /\ pc[t] = "spop_retire"
    /\ mem' = DestroyNow(mem, loc[t].hs)
    /\ err' = err \cup DestroyErr(loc[t].hs)
    /\ pc' = [pc EXCEPT ![t] = "spop_read"]
    /\ UNCHANGED <<coll, run, head, tail, garbage, loc, npush, npop, nops, hist, halted>>

\* guard.defer_destroy(head_snapshot)
SPopRetire(t) ==
    /\ pc[t] = "spop_retire"
    /\ garbage' = Retire(garbage, loc[t].hs)
    /\ mem' = MarkRetired(mem, loc[t].hs)
    /\ err' = err \cup RetireErr(loc[t].hs)
    /\ pc' = [pc EXCEPT ![t] = "spop_read"]
    /\ UNCHANGED <<coll, run, head, tail, loc, npush, npop, nops, hist, halted>>

\* return Some(ManuallyDrop::into_inner(ptr::read(&head.data))), and the guard
\* is dropped.
SPopRead(t) ==
    /\ pc[t] = "spop_read"
    /\ \E v \in ReadData(loc[t].hs) : hist' = Deliver(hist, t, v)
    /\ err' = err \cup DerefErr(loc[t].hs)
    /\ Return(t)
    /\ garbage' = Unpin(garbage, t)
    /\ UNCHANGED <<coll, run, head, tail, mem, npush, npop, nops, halted>>

StackStep(t) ==
    \/ SPushBegin(t) \/ SPushLoadHead(t) \/ SPushCas(t)
    \/ SPopBegin(t) \/ SPopLoadHead(t) \/ SPopLoadNext(t) \/ SPopCas(t)
    \/ SPopRetire(t) \/ SPopRead(t)

Step(t) == halted # t /\ (QueueStep(t) \/ StackStep(t))

Next ==
    \/ \E t \in Threads : Step(t)
    \/ \E e \in garbage : Collect(e)

Spec == Init /\ [][Next]_vars

QueueNext ==
    \/ \E t \in Threads : halted # t /\ QueueStep(t)
    \/ \E e \in garbage : Collect(e)

TestSpec == TestInit /\ [][QueueNext]_vars

\* The queue alone, called by interchangeable threads or by one thread alone.
QueueInit == InitOf({"queue"}, {AnyRun, SeqRun})

QueueSpec == QueueInit /\ [][QueueNext]_vars

\* The stack alone.
StackInit == InitOf({"stack"}, {AnyRun, SeqRun})

StackNext ==
    \/ \E t \in Threads : halted # t /\ StackStep(t)
    \/ \E e \in garbage : Collect(e)

StackSpec == StackInit /\ [][StackNext]_vars

\* A thread stops for ever right after linking its node, before its own
\* attempt to advance tail.
Halt(t) ==
    /\ halted = 0 /\ pc[t] = "qpush_swing"
    /\ halted' = t
    /\ UNCHANGED <<coll, run, head, tail, mem, garbage, pc, loc, npush, npop, nops, hist, err>>

SuspendNext == Next \/ \E t \in Threads : Halt(t)

\* Every thread that has not stopped keeps being scheduled.
SuspendSpec ==
    /\ LiveInit /\ [][SuspendNext]_vars
    /\ \A t \in Threads : WF_vars(Step(t))
    /\ WF_vars(\E e \in garbage : Collect(e))

\* Some thread takes a step.
ThreadNext == \E t \in Threads : Step(t)

\* The reclamation subsystem destroys a node.
CollectNext == \E e \in garbage : Collect(e)

\* Threads keep taking steps, whichever they are.
ProgressSpec == LiveInit /\ [][Next]_vars /\ WF_vars(ThreadNext)

\* Every thread keeps being scheduled and the reclamation subsystem keeps
\* collecting.
FairSpec ==
    /\ LiveInit /\ [][Next]_vars
    /\ \A t \in Threads : WF_vars(Step(t))
    /\ WF_vars(CollectNext)

\* ------------------------------------------------------------ Drop
\* The thread that owns the collection and drops it.
Owner == 1

\* A value that the teardown took out of the collection and dropped.
DrainEv(t, v) == [op |-> "drain", thr |-> t, val |-> v]

\* The positions of the owner during and after the teardown.
DropPcs == {"qdropping", "qdrop_sentinel", "sdropping", "dropped"}

\* drop(&mut self) has exclusive access: no operation is in flight when it
\* starts, and none starts afterwards.
DropMay(t, again) ==
    /\ t = Owner /\ halted = 0
    /\ \/ pc[t] = again
       \/ \A u \in Threads : pc[u] = "idle"

\* Drop for Queue, one turn of  while self.try_pop(guard).is_some() {}  with
\* guard = unprotected(): try_pop's loads, its help of a stale tail, its head
\* compare-and-swap, defer_destroy (immediate under this guard) and ptr::read;
\* None ends the loop.
QDropTryPop(t) ==
    /\ coll = "queue" /\ DropMay(t, "qdropping")
    /\ LET hs == head IN
       \E nx \in ReadNext(hs) :
          IF nx = Null
          THEN /\ pc' = [pc EXCEPT ![t] = "qdrop_sentinel"]
               /\ err' = err \cup DerefErr(hs)
               /\ UNCHANGED <<head, tail, mem, hist>>
          ELSE /\ tail' = IF SameAddr(tail, hs) THEN nx ELSE tail
               /\ head' = nx
               /\ mem' = DestroyNow(mem, hs)
               /\ \E v \in ReadData(nx) : hist' = Append(hist, DrainEv(t, v))
               /\ err' = err \cup DerefErr(hs) \cup DestroyErr(hs) \cup DerefErr(nx)
               /\ pc' = [pc EXCEPT ![t] = "qdropping"]
    /\ UNCHANGED <<coll, run, garbage, loc, npush, npop, nops, halted>>

\* let sentinel = self.head.load(Relaxed, guard); drop(sentinel.into_owned())
QDropSentinel(t) ==
    /\ pc[t] = "qdrop_sentinel"
    /\ mem' = DestroyNow(mem, head)
    /\ err' = err \cup DestroyErr(head)
    /\ pc' = [pc EXCEPT ![t] = "dropped"]
    /\ UNCHANGED <<coll, run, head, tail, garbage, loc, npush, npop, nops, hist, halted>>

\* Drop for Stack, one turn of  while self.try_pop().is_some() {}:  try_pop
\* pins, loads head and head.next, swings head, calls guard.defer_destroy under
\* its pinned guard, reads the payload and drops the guard; None ends the loop.
SDropTryPop(t) ==
    /\ coll = "stack" /\ DropMay(t, "sdropping")
    /\ LET hs == head IN
       IF hs = Null
       THEN /\ pc' = [pc EXCEPT ![t] = "dropped"]
            /\ UNCHANGED <<head, mem, garbage, hist, err>>
       ELSE \E nx \in ReadNext(hs) :
            /\ head' = nx
            /\ garbage' = Unpin(Retire(garbage, hs), t)
            /\ mem' = MarkRetired(mem, hs)
            /\ \E v \in ReadData(hs) : hist' = Append(hist, DrainEv(t, v))
            /\ err' = err \cup DerefErr(hs) \cup RetireErr(hs)
            /\ pc' = [pc EXCEPT ![t] = "sdropping"]
    /\ UNCHANGED <<coll, run, tail, loc, npush, npop, nops, halted>>

\* Operations run until the owner drops the collection; the reclamation
\* subsystem runs throughout.
DropNext ==
    \/ \E t \in Threads : pc[Owner] \notin DropPcs /\ Step(t)
    \/ \E e \in garbage : Collect(e)
    \/ \E t \in Threads : QDropTryPop(t) \/ QDropSentinel(t) \/ SDropTryPop(t)

DropSpec == Init /\ [][DropNext]_vars

\* The stack under its test.
PairInit == InitOf({"stack"}, {PairRun})

\* The spawned threads have been joined: each has made all its rounds.
Joined ==
    \A u \in Threads \ {NumThreads} :
        pc[u] = "idle" /\ npush[u] = run.push[u] /\ npop[u] = run.pop[u]

\* The order of the calls in the test: a spawned thread pushes when its last
\* try_pop has returned and pops when its push has; the test's own thread pops
\* after the join.
InTestOrder(t) ==
    /\ npush'[t] # npush[t] => npop[t] = npush[t]
    /\ npop'[t] # npop[t] => IF t = NumThreads THEN Joined ELSE npop[t] < npush[t]

PairNext ==
    \/ \E t \in Threads : StackStep(t) /\ InTestOrder(t)
    \/ \E e \in garbage : Collect(e)

PairSpec == PairInit /\ [][PairNext]_vars

\* ------------------------------------------------------------ views
\* The values pushed, in the order of their linearization points.
Pushed == SelectSeq(hist, LAMBDA e : e.op = "push")
\* The successful try_pops, in the order of their linearization points.
Popped == SelectSeq(hist, LAMBDA e : e.op = "pop")
\* The successful try_pops that have returned.
Delivered == SelectSeq(hist, LAMBDA e : e.op = "pop" /\ e.val # Pending)

AllIdle == \A t \in Threads : pc[t] = "idle"

\* The collection holds no value.
EmptyNow ==
    IF coll = "queue"
    THEN AddrOf(head) \in Addrs /\ mem[AddrOf(head)].next = Null
    ELSE head = Null

NoMemErr(kinds) == err \cap kinds = {}

\* The nodes reached from p by next-links, p first, at most n of them.
RECURSIVE Chain(_, _)
Chain(p, n) ==
    IF n = 0 \/ AddrOf(p) \notin Addrs THEN <<>>
    ELSE <<AddrOf(p)>> \o Chain(mem[AddrOf(p)].next, n - 1)

\* The payloads of a sequence of nodes.
Payloads(nodes) == [i \in 1..Len(nodes) |-> mem[nodes[i]].data]

\* The values the collection holds, the next to be popped first: the stack's
\* nodes from head, the queue's nodes after the node at head.
Contents ==
    IF coll = "stack" THEN Payloads(Chain(head, Cardinality(Addrs) + 1))
    ELSE Payloads(Tail(Chain(head, Cardinality(Addrs) + 1)))

\* ------------------------------------------------------------ claims

\* C1: the values returned by the queue's successful try_pops, in the order of
\* their head compare-and-swaps, are a prefix of the values pushed, in the order
\* of their link compare-and-swaps: none skipped, duplicated or fabricated.
QueueFifo ==
    coll = "queue" =>
        /\ Len(Popped) <= Len(Pushed)
        /\ \A i \in 1..Len(Popped) : Popped[i].val \in {Pending, Pushed[i].val}

\* One producer, one consumer: the consumer has received the producer's two
\* values in the order they were pushed, the second pushed after the first pop.
QueueFifoWitness ==
    /\ coll = "queue" /\ run = AnyRun
    /\ hist = <<PushEv(1, <<1, 1>>), PopEv(2, <<1, 1>>),
                PushEv(1, <<1, 2>>), PopEv(2, <<1, 2>>)>>

\* The sequential stack that the events h[i..] leave correct, started from the
\* stack stk (top first): a pop returns the top, an empty pop finds nothing.
RECURSIVE LifoFrom(_, _, _)
LifoFrom(h, i, stk) ==
    IF i > Len(h) THEN TRUE
    ELSE IF h[i].op = "push" THEN LifoFrom(h, i + 1, <<h[i].val>> \o stk)
    ELSE IF h[i].op = "empty" THEN stk = <<>> /\ LifoFrom(h, i + 1, stk)
    ELSE /\ stk # <<>>
         /\ h[i].val \in {Pending, Head(stk)}
         /\ LifoFrom(h, i + 1, Tail(stk))

\* The stack (top first) that the events of h build.
RECURSIVE StackAfter(_, _)
StackAfter(h, n) ==
    IF n = 0 THEN <<>>
    ELSE IF h[n].op = "push" THEN <<h[n].val>> \o StackAfter(h, n - 1)
    ELSE IF h[n].op = "pop" /\ StackAfter(h, n - 1) # <<>> THEN Tail(StackAfter(h, n - 1))
    ELSE StackAfter(h, n - 1)

\* C2: the stack's operations, each taken at its successful compare-and-swap on
\* head (an empty try_pop at its load of a null head), form a sequential stack
\* history: every successful try_pop returns the most recently pushed value not
\* yet popped, and the nodes from head hold what that sequential stack holds.
StackLifo ==
    coll = "stack" =>
        /\ LifoFrom(hist, 1, <<>>)
        /\ Contents = StackAfter(hist, Len(hist))

\* One thread has pushed a, b, c and popped c, b, a.
StackLifoWitness ==
    /\ coll = "stack" /\ run = SeqRun
    /\ hist = <<PushEv(1, <<1, 1>>), PushEv(1, <<1, 2>>), PushEv(1, <<1, 3>>),
                PopEv(1, <<1, 3>>), PopEv(1, <<1, 2>>), PopEv(1, <<1, 1>>)>>

\* The pointer t's next step dereferences (Null when it dereferences none).
DerefTarget(t) ==
    CASE pc[t] \in {"qpush_load_next", "qpush_link"} -> loc[t].ts
      [] pc[t] \in {"qpop_load_next", "spop_load_next", "spop_read"} -> loc[t].hs
      [] pc[t] = "qpop_read" -> loc[t].nx
      [] OTHER -> Null

\* C3: no thread reads the next-link or the payload of a node that has been
\* destroyed: no such read has happened, and the node every thread is about to
\* read is still the allocation its pointer was loaded from.
NoUseAfterFree ==
    /\ NoMemErr({"use_after_free", "null_deref"})
    /\ \A t \in Threads : DerefTarget(t) # Null => Valid(DerefTarget(t))

\* A try_pop of the queue is about to read the payload of the node it made the
\* head, which another try_pop has since removed and retired and whose only
\* remaining guard is the reader's.
NoUseAfterFreeWitness ==
    \E t \in Threads :
        /\ pc[t] = "qpop_read"
        /\ mem[AddrOf(loc[t].nx)].st = "retired"
        /\ [a |-> AddrOf(loc[t].nx), blockers |-> {t}] \in garbage

\* The threads that have called push.
Producers == {t \in Threads : npush[t] > 0}

\* The queue holds no value and no try_pop is between its head compare-and-swap
\* and its return.
Drained == EmptyNow /\ Len(Delivered) = Len(Popped)

\* C4: with one producer pushing increasing values and several consumers, no
\* value is returned twice, every value returned was pushed, each consumer
\* receives strictly increasing values, and once the queue is drained the values
\* returned are exactly the values pushed.
MultiConsumer ==
    (coll = "queue" /\ Cardinality(Producers) <= 1) =>
        /\ \A i \in 1..Len(Delivered) :
               \E k \in 1..Len(Pushed) : Pushed[k].val = Delivered[i].val
        /\ \A i, j \in 1..Len(Delivered) :
               i < j => /\ Delivered[i].val # Delivered[j].val
                        /\ Delivered[i].thr = Delivered[j].thr
                              => Delivered[i].val[2] < Delivered[j].val[2]
        /\ Drained =>
               {Delivered[i].val : i \in 1..Len(Delivered)}
                   = {Pushed[k].val : k \in 1..Len(Pushed)}

\* The producer's two values went to two different consumers, one of which
\* also found the queue empty, and the queue is drained.
MultiConsumerWitness ==
    /\ run = SpmcRun /\ AllIdle /\ Drained
    /\ \E i, j, k \in 1..Len(hist) :
        /\ hist[i] = PopEv(2, <<1, 1>>)
        /\ hist[j] = PopEv(3, <<1, 2>>)
        /\ hist[k].op = "empty"

\* The values of producer p among the values returned, in the order returned.
FromProducer(p) == SelectSeq(Delivered, LAMBDA e : e.val[1] = p)

\* C5: with two producers and a consumer, the values returned that carry one
\* producer's tag appear in that producer's push order: each later than the one
\* before, and, once every pop has returned, with none of them left out.
PerProducerOrder ==
    coll = "queue" =>
        \A p \in Threads :
            /\ \A i, j \in 1..Len(FromProducer(p)) :
                   i < j => FromProducer(p)[i].val[2] < FromProducer(p)[j].val[2]
            /\ Len(Delivered) = Len(Popped) =>
                   \A i \in 1..Len(FromProducer(p)) : FromProducer(p)[i].val[2] = i

\* The consumer has received A's first value, B's first, then A's second.
PerProducerOrderWitness ==
    /\ run = MpmcRun
    /\ Delivered = <<PopEv(3, <<1, 1>>), PopEv(3, <<2, 1>>), PopEv(3, <<1, 2>>)>>

\* The threads that have won a head compare-and-swap and not yet retired the
\* node they removed.
Retiring == {t \in Threads : pc[t] \in {"qpop_retire", "spop_retire"}}

\* C6: every node is retired at most once and destroyed at most once: no node
\* was retired or destroyed twice, the nodes about to be retired are live and
\* each is held by one thread only, every node awaiting destruction awaits it
\* once; and when as many pops have succeeded as pushes were made and no
\* operation is in flight, the collection is empty.
NoDoubleFree ==
    /\ NoMemErr({"double_retire", "double_free"})
    /\ \A t \in Retiring :
          /\ Valid(loc[t].hs) /\ mem[AddrOf(loc[t].hs)].st = "live"
          /\ \A u \in Retiring : SameAddr(loc[u].hs, loc[t].hs) => u = t
    /\ \A e \in garbage :
          /\ mem[e.a].st = "retired"
          /\ \A f \in garbage : f.a = e.a => f = e
    /\ (AllIdle /\ Len(Delivered) = Len(Pushed)) => EmptyNow

\* Two values were pushed and popped by different threads, every operation has
\* returned, and the two nodes retired have been destroyed.
NoDoubleFreeWitness ==
    /\ AllIdle /\ EmptyNow
    /\ Len(Pushed) = 2 /\ Len(Delivered) = 2
    /\ Delivered[1].thr # Delivered[2].thr
    /\ garbage = {}
    /\ Cardinality({a \in Addrs : mem[a].st = "free" /\ mem[a].gen > 0}) = 2

\* C7: every node retired by a try_pop is eventually destroyed, the threads
\* being scheduled so that every guard is released.
EventuallyReclaimed ==
    \A a \in Addrs : (mem[a].st = "retired") ~> (mem[a].st = "free")

\* A retired node waits for the guard of a thread other than the one that
\* retired it.
EventuallyReclaimedWitness ==
    \E e \in garbage, t \in Threads :
        /\ e.blockers = {t}
        /\ pc[t] \notin {"qpop_read", "spop_read"}

\* The operations started and returned.
Completed == nops - Cardinality({t \in Threads : pc[t] # "idle"})

\* C8: while threads keep taking steps and an operation is in flight, some
\* operation returns after finitely many steps, whichever threads take them.
LockFree ==
    \A n \in 0..(MaxLiveOps - 1) :
        (~AllIdle /\ Completed = n) ~> (Completed > n)

\* A push retries after advancing the stale tail left by a thread that has
\* linked its node and not taken another step.
LockFreeWitness ==
    \E t, u \in Threads :
        /\ t # u
        /\ pc[u] = "qpush_swing" /\ pc[t] = "qpush_load_tail"
        /\ tail = loc[u].new

\* The queue that the events h[i..] leave correct, started from the queue q
\* (front first): a pop returns the front, an empty pop finds nothing.
RECURSIVE FifoFrom(_, _, _)
FifoFrom(h, i, q) ==
    IF i > Len(h) THEN TRUE
    ELSE IF h[i].op = "push" THEN FifoFrom(h, i + 1, Append(q, h[i].val))
    ELSE IF h[i].op = "empty" THEN q = <<>> /\ FifoFrom(h, i + 1, q)
    ELSE /\ q # <<>>
         /\ h[i].val \in {Pending, Head(q)}
         /\ FifoFrom(h, i + 1, Tail(q))

\* The push of the thread that stopped is linearized: its value is in the
\* queue or has been dequeued.
HaltedIsLinked ==
    halted # 0 =>
        LET v == mem[AddrOf(loc[halted].new)].data IN
        /\ \E i \in 1..Len(hist) : hist[i] = PushEv(halted, v)
        /\ \/ \E i \in 1..Len(Contents) : Contents[i] = v
           \/ \E i \in 1..Len(Popped) : Popped[i].val \in {v, Pending}

\* C9: once a thread has stopped for ever between linking its node and
\* advancing tail, its value is part of the queue, every operation of any other
\* thread still returns, and the values are dequeued in link order: the events
\* form a sequential queue history.
SuspendedLinker ==
    /\ [](coll = "queue" => HaltedIsLinked /\ FifoFrom(hist, 1, <<>>))
    /\ \A t \in Threads :
          (halted # 0 /\ halted # t /\ pc[t] # "idle") ~> (pc[t] = "idle")

\* Thread 1 stopped after linking; thread 2 then pushed and returned, and its
\* try_pop returned the value of thread 1.
SuspendedLinkerWitness ==
    /\ halted = 1 /\ pc[1] = "qpush_swing" /\ pc[2] = "idle"
    /\ hist = <<PushEv(1, <<1, 1>>), PushEv(2, <<2, 1>>), PopEv(2, <<1, 1>>)>>

\* The positions of a try_pop that has not won a compare-and-swap on head.
PopTrying ==
    {"qpop_load_head", "qpop_load_next", "qpop_load_tail", "qpop_help",
     "qpop_cas_head", "spop_load_head", "spop_load_next", "spop_cas"}

\* This step is t's, in a try_pop that has not won a compare-and-swap on head
\* (its call included).
PopTryStep(t) ==
    \/ npop'[t] # npop[t]
    \/ pc[t] \in PopTrying /\ (pc'[t] # pc[t] \/ loc'[t] # loc[t])

\* This step of t decides whether the collection is empty, on a current
\* snapshot: the stack's load of head, the queue's load of head.next.
PopEmptyTest(t) ==
    \/ coll = "stack" /\ (npop'[t] # npop[t] \/ (pc[t] = "spop_load_head" /\ pc'[t] # pc[t]))
    \/ /\ coll = "queue" /\ pc[t] = "qpop_load_next" /\ pc'[t] # pc[t]
       /\ SameAddr(loc[t].hs, head)

\* A step of a try_pop on the empty collection changes neither head, tail nor
\* any node, retires nothing and wins nothing; and its emptiness test returns
\* nothing.
EmptyPopFrame ==
    \A t \in Threads :
        (EmptyNow /\ PopTryStep(t)) =>
            /\ head' = head /\ tail' = tail /\ mem' = mem
            /\ {e.a : e \in garbage'} = {e.a : e \in garbage}
            /\ \/ hist' = hist
               \/ hist' = Append(hist, EmptyEv(t))
            /\ PopEmptyTest(t) => (hist' = Append(hist, EmptyEv(t)) /\ pc'[t] = "idle")

\* A push onto the empty collection leaves it holding that value alone.
PushOnEmpty ==
    (EmptyNow /\ Len(hist') = Len(hist) + 1 /\ hist'[Len(hist')].op = "push")
        => Contents' = <<hist'[Len(hist')].val>>

\* After a try_pop that found nothing and a push, the next try_pop to take
\* effect returns the value pushed.
PushAfterEmptyIsPopped ==
    \A i \in 1..Len(hist) :
        (i + 2 <= Len(hist) /\ hist[i].op = "empty" /\ hist[i + 1].op = "push") =>
            /\ hist[i + 2].op # "empty"
            /\ hist[i + 2].op = "pop" => hist[i + 2].val \in {Pending, hist[i + 1].val}

\* C10: try_pop on an empty queue or stack returns nothing each time, leaves
\* head, tail and every next-link unchanged and retires no node; a push made
\* afterwards takes effect and its value is returned by the next try_pop.
IdempotentEmptiness ==
    /\ [][EmptyPopFrame /\ PushOnEmpty]_vars
    /\ []PushAfterEmptyIsPopped

\* One thread popped twice from the empty queue, pushed, and popped the value
\* it had pushed.
IdempotentEmptinessWitness ==
    /\ coll = "queue"
    /\ hist = <<EmptyEv(1), EmptyEv(1), PushEv(1, <<1, 1>>), PopEv(1, <<1, 1>>)>>
    /\ head = tail /\ EmptyNow

\* The queue's head and tail point at nodes that exist.
SentinelNonNull ==
    coll = "queue" =>
        /\ head # Null /\ tail # Null
        /\ AddrOf(head) \in Addrs /\ mem[AddrOf(head)].st = "live"
        /\ AddrOf(tail) \in Addrs /\ mem[AddrOf(tail)].st # "free"

\* The step in which a try_pop of the queue tests the next-link of the head node
\* it loaded: it returns nothing exactly when that link is null, and then the
\* node is still the head, nothing follows it, and every value linked so far
\* has been dequeued; otherwise it goes on to load tail.
EmptyResultExact ==
    \A t \in Threads :
        (coll = "queue" /\ pc[t] = "qpop_load_next" /\ pc'[t] # pc[t]) =>
            /\ (hist' = Append(hist, EmptyEv(t)))
                   <=> (mem[AddrOf(loc[t].hs)].next = Null)
            /\ hist' # hist =>
                   /\ pc'[t] = "idle"
                   /\ SameAddr(loc[t].hs, head) /\ EmptyNow
                   /\ Len(Popped) = Len(Pushed)
            /\ hist' = hist => (pc'[t] = "qpop_load_tail" /\ loc'[t].nx # Null)

\* No other step of the queue returns nothing.
EmptyOnlyAtTest ==
    (coll = "queue" /\ Len(hist') > Len(hist) /\ hist'[Len(hist')].op = "empty") =>
        \E t \in Threads :
            pc[t] = "qpop_load_next" /\ hist'[Len(hist')] = EmptyEv(t)

\* C11: the queue's head and tail are never null, and try_pop returns nothing
\* exactly when the next-link of the head node it loaded is null; at that
\* instant the queue holds no value: every value linked has been dequeued.
QueueEmptyTest ==
    /\ []SentinelNonNull
    /\ [][EmptyResultExact /\ EmptyOnlyAtTest]_vars

\* A value was pushed and dequeued, and a third thread's try_pop returned
\* nothing while the dequeuing try_pop had not yet retired the old head.
QueueEmptyTestWitness ==
    /\ coll = "queue"
    /\ hist = <<PushEv(1, <<1, 1>>), PopEv(2, Pending), EmptyEv(3)>>
    /\ pc[2] = "qpop_retire" /\ pc[3] = "idle"

\* C12: the threads of the stack's test each push and then pop, repeatedly:
\* every one of their try_pops finds a value, the stack is empty once they have
\* all finished, and the try_pop made after that returns nothing.
StackPushThenPop ==
    /\ \A i \in 1..Len(hist) :
          (hist[i].op = "empty") <=> (hist[i].thr = NumThreads)
    /\ Joined => (EmptyNow /\ Len(Popped) = Len(Pushed))

\* Both spawned threads made all their rounds, one of them received a value the
\* other had pushed, and the final try_pop returned nothing.
StackPushThenPopWitness ==
    /\ AllIdle /\ Joined /\ npop[NumThreads] = 1
    /\ hist[Len(hist)] = EmptyEv(NumThreads)
    /\ Len(Delivered) = 2 * MaxPairs
    /\ \E i \in 1..Len(hist) :
          hist[i].op = "pop" /\ hist[i].thr = 1 /\ hist[i].val[1] = 2

\* This step is a step of the teardown.
TeardownStep == pc'[Owner] \in DropPcs /\ (head' # head \/ pc' # pc)

\* A step of the teardown that removes a node destroys it in that step and
\* hands nothing to the reclamation subsystem; the node it removes held the
\* value next in line, which is taken out and dropped; nothing is destroyed or
\* retired twice.
TeardownFreesNow ==
    TeardownStep =>
        /\ \A a \in Addrs :
              (mem[a].st = "live" /\ mem'[a].st # "live") => mem'[a].st = "free"
        /\ garbage' = garbage
        /\ err' = err
        /\ head' # head =>
              /\ Contents # <<>>
              /\ hist' = Append(hist, DrainEv(Owner, Head(Contents)))

\* After the teardown no node is left alive.
TeardownLeavesNothing ==
    pc[Owner] = "dropped" => \A a \in Addrs : mem[a].st # "live"

\* C13: dropping a queue or a stack with no operation in flight takes out every
\* remaining value and destroys every node reachable from head (and the queue's
\* last sentinel) exactly once, in the teardown itself, deferring nothing to
\* the reclamation subsystem.
TeardownImmediate ==
    /\ [][TeardownFreesNow]_vars
    /\ []TeardownLeavesNothing

\* The same, of the queue alone.
QueueTeardownImmediate ==
    /\ [][coll = "queue" => TeardownFreesNow]_vars
    /\ []TeardownLeavesNothing

\* The stack's teardown takes out every value and retires every node once.
StackTeardownDefers ==
    [][(coll = "stack" /\ TeardownStep) =>
          /\ err' = err
          /\ \A a \in Addrs :
                (mem[a].st = "live" /\ mem'[a].st # "live") =>
                    /\ mem'[a].st = "retired"
                    /\ \E e \in garbage' : e.a = a /\ e.blockers = {}
          /\ head' # head =>
                /\ Contents # <<>>
                /\ hist' = Append(hist, DrainEv(Owner, Head(Contents)))]_vars

\* The threads that have won a head compare-and-swap and not yet returned.
Removing ==
    {t \in Threads : pc[t] \in {"qpop_retire", "qpop_read", "spop_retire", "spop_read"}}

\* The node whose payload t moves out: the node the queue's head was swung onto,
\* the node the stack's head was swung off.
PayloadNode(t) == IF coll = "queue" THEN loc[t].nx ELSE loc[t].hs

\* The events of t whose payload has not been moved out yet.
PendingOf(t) == {i \in 1..Len(hist) : hist[i] = PopEv(t, Pending)}

\* The value that the compare-and-swap recorded as event i removed: the queue's
\* k-th removal takes the k-th value linked, the stack's takes the top.
RemovedAt(i) ==
    IF coll = "queue"
    THEN Pushed[Len(SelectSeq(SubSeq(hist, 1, i), LAMBDA e : e.op = "pop"))].val
    ELSE Head(StackAfter(hist, i - 1))

\* C14: every payload is moved out at most once, by the thread whose
\* compare-and-swap on head removed its value and by no other: the values
\* returned are pairwise different and none is the sentinel's; exactly the
\* threads past a winning compare-and-swap are about to read a payload, each
\* that of the node its own compare-and-swap removed, which no other thread is
\* about to read and which has not been read before.
ExactlyOnce ==
    LET returned == {Delivered[i].val : i \in 1..Len(Delivered)} IN
    /\ Cardinality(returned) = Len(Delivered)
    /\ returned \cap {NoVal, Pending} = {}
    /\ \A t \in Threads :
          Cardinality(PendingOf(t)) = (IF t \in Removing THEN 1 ELSE 0)
    /\ \A t \in Removing :
          LET n == PayloadNode(t) IN
          /\ Valid(n)
          /\ \A i \in PendingOf(t) : mem[AddrOf(n)].data = RemovedAt(i)
          /\ mem[AddrOf(n)].data \notin returned
          /\ \A u \in Removing : SameAddr(PayloadNode(u), n) => u = t
          /\ AddrOf(n) \notin
                {Chain(head, Cardinality(Addrs) + 1)[i] :
                    i \in 1..Len(Chain(head, Cardinality(Addrs) + 1))}
                \ (IF coll = "queue" THEN {AddrOf(head)} ELSE {})

\* Two try_pops of the stack have each won a compare-and-swap and are about to
\* read the payloads of two different nodes.
ExactlyOnceWitness ==
    /\ coll = "stack"
    /\ pc[2] = "spop_read" /\ pc[3] = "spop_read"
    /\ loc[2].hs # loc[3].hs

\* The payload of the node at the queue's head.
HeadData == mem[AddrOf(head)].data

\* The values linked and not yet removed by a head compare-and-swap, oldest first.
Undequeued == [i \in 1..(Len(Pushed) - Len(Popped)) |-> Pushed[Len(Popped) + i].val]

\* The node after head, if any, holds the oldest value not yet dequeued, and the
\* nodes after it the later ones in order.
OldestAtHeadNext == AddrOf(head) \in Addrs /\ Contents = Undequeued

\* C15 as stated: in every state, also between a try_pop's head compare-and-swap
\* and its read of the payload, the payload of the node at head has already
\* been moved out (or the node is the initial sentinel), and head.next holds the
\* oldest value not yet dequeued.
HeadConsumed ==
    coll = "queue" =>
        /\ \/ HeadData = NoVal
           \/ \E i \in 1..Len(Delivered) : Delivered[i].val = HeadData
        /\ OldestAtHeadNext

\* C15, amended: the node at head is the initial sentinel or holds the value
\* most recently removed by a head compare-and-swap; its payload has been
\* moved out, except between that compare-and-swap and the read of the
\* payload, when the winner alone is about to read it from this node; and
\* head.next holds the oldest value not yet dequeued.
HeadDequeued ==
    coll = "queue" =>
        /\ IF Len(Popped) = 0 THEN HeadData = NoVal
           ELSE LET last == Popped[Len(Popped)] IN
                /\ HeadData = Pushed[Len(Popped)].val
                /\ last.val \in {Pending, HeadData}
                /\ last.val = Pending =>
                      /\ pc[last.thr] \in {"qpop_retire", "qpop_read"}
                      /\ loc[last.thr].nx = head
        /\ OldestAtHeadNext

\* A try_pop has swung head onto a node and not yet read its payload, and
\* another value waits behind it.
HeadDequeuedWitness ==
    /\ coll = "queue"
    /\ \E t \in Threads : pc[t] = "qpop_read" /\ loc[t].nx = head
    /\ Popped[Len(Popped)].val = Pending
    /\ Len(Contents) = 1

\* The addresses of the nodes reached from head by next-links, head's first.
HeadChain == Chain(head, Cardinality(Addrs) + 1)

\* The position of the node at address a on the chain from head (0: not on it).
PosOnChain(a) ==
    IF \E i \in 1..Len(HeadChain) : HeadChain[i] = a
    THEN CHOOSE i \in 1..Len(HeadChain) : HeadChain[i] = a
    ELSE 0

\* tail points at a live node on the chain from head.
TailOnChain ==
    coll = "queue" =>
        /\ tail # Null /\ Valid(tail)
        /\ PosOnChain(AddrOf(tail)) > 0
        /\ mem[AddrOf(tail)].st = "live"

\* A step that moves head off a node finds tail somewhere else.
HeadLeavesTailAhead ==
    (coll = "queue" /\ head' # head) => ~SameAddr(tail, head)

\* C16: the queue's tail is never null and always points at a node on the
\* chain from head, so never past the last linked node and never at a node that
\* a head advance has removed; whenever a compare-and-swap moves head off a
\* node, tail does not point at that node.
TailInvariant ==
    /\ []TailOnChain
    /\ [][HeadLeavesTailAhead]_vars

\* A try_pop saw tail at its head snapshot, advanced it over the node of a push
\* that has not yet swung tail itself, and then moved head onto that node.
TailInvariantWitness ==
    /\ coll = "queue"
    /\ \E t, u \in Threads :
          /\ pc[t] = "qpop_retire" /\ loc[t].ts = loc[t].hs
          /\ pc[u] = "qpush_swing" /\ loc[u].ts = loc[t].hs
          /\ head = loc[u].new /\ tail = loc[u].new

\* The compare-and-swap t is about to make on a pointer to a node: the current
\* value of the field and the snapshot it is compared with.
CasPending(t) ==
    CASE pc[t] \in {"qpush_help", "qpush_swing", "qpop_help"} -> <<tail, loc[t].ts>>
      [] pc[t] \in {"qpop_cas_head", "spush_cas", "spop_cas"} -> <<head, loc[t].hs>>
      [] OTHER -> <<Null, Null>>

\* The snapshots t holds under its guard.
Snapshots(t) == {loc[t].hs, loc[t].ts, loc[t].nx} \ {Null}

\* C17: no compare-and-swap succeeds against a snapshot whose address has been
\* reused for another node: none has, every compare-and-swap about to be made
\* matches by address only if the field still holds the very allocation of the
\* snapshot, and no node a thread holds a snapshot of under its guard has been
\* destroyed or reallocated.
AbaFree ==
    /\ NoMemErr({"aba"})
    /\ \A t \in Threads :
          /\ SameAddr(CasPending(t)[1], CasPending(t)[2])
                => CasPending(t)[1] = CasPending(t)[2]
          /\ \A p \in Snapshots(t) : Valid(p)

\* A try_pop of the stack is about to compare head with a snapshot whose node
\* another try_pop has removed and retired; the node waits for this thread's
\* guard alone, and values have been pushed since.
AbaFreeWitness ==
    /\ coll = "stack" /\ head # Null
    /\ \E t \in Threads :
          /\ pc[t] = "spop_cas"
          /\ mem[AddrOf(loc[t].hs)].st = "retired"
          /\ [a |-> AddrOf(loc[t].hs), blockers |-> {t}] \in garbage

\* The place of value v in the order of the successful push compare-and-swaps
\* (0: not pushed).
PushIndex(v) ==
    IF \E k \in 1..Len(Pushed) : Pushed[k].val = v
    THEN CHOOSE k \in 1..Len(Pushed) : Pushed[k].val = v
    ELSE 0

\* The values removed by a successful try_pop compare-and-swap: those returned
\* and those about to be read by the thread that removed them.
RemovedValues ==
    {Delivered[i].val : i \in 1..Len(Delivered)}
        \cup {mem[AddrOf(PayloadNode(t))].data : t \in Removing}

\* C18: the next-links from the stack's head visit the nodes pushed and not yet
\* popped, the latest pushed first, through live nodes only, without visiting
\* a node twice, and end at null.
StackStructure ==
    coll = "stack" =>
        LET c == HeadChain IN
        /\ (c = <<>>) <=> (head = Null)
        /\ Len(c) <= Cardinality(Addrs)
        /\ \A i, j \in 1..Len(c) : i < j => c[i] # c[j]
        /\ c # <<>> => (Valid(head) /\ mem[c[Len(c)]].next = Null)
        /\ \A i \in 1..Len(c) :
              /\ mem[c[i]].st = "live"
              /\ mem[c[i]].next # Null => Valid(mem[c[i]].next)
        /\ \A i, j \in 1..Len(c) :
              i < j => PushIndex(mem[c[i]].data) > PushIndex(mem[c[j]].data)
        /\ {mem[c[i]].data : i \in 1..Len(c)}
              = {Pushed[k].val : k \in 1..Len(Pushed)} \ RemovedValues

\* Two nodes pushed by different threads are on the stack, the later on top,
\* above a third value that was pushed and has been popped and returned.
StackStructureWitness ==
    /\ coll = "stack" /\ AllIdle
    /\ Len(HeadChain) = 2 /\ Len(Delivered) = 1
    /\ mem[HeadChain[1]].data[1] # mem[HeadChain[2]].data[1]
    /\ \E a \in Addrs : mem[a].st = "retired"

\* The node after the node at tail (Null: tail is at the last node).
AfterTail == mem[AddrOf(tail)].next

\* C19: the queue's tail points at the last linked node or at the one before
\* it, never further back: a push about to link onto a node whose next-link is
\* null finds tail at that very node.
TailLagBound ==
    coll = "queue" =>
        /\ AddrOf(tail) \in Addrs
        /\ AfterTail # Null =>
              (AddrOf(AfterTail) \in Addrs /\ mem[AddrOf(AfterTail)].next = Null)
        /\ PosOnChain(AddrOf(tail)) \in {Len(HeadChain) - 1, Len(HeadChain)} \ {0}
        /\ \A t \in Threads :
              (pc[t] = "qpush_link" /\ mem[AddrOf(loc[t].ts)].next = Null)
                  => loc[t].ts = tail

\* tail is one node behind: a push has linked the third node of the chain and
\* not yet swung tail, and another push has seen the stale tail.
TailLagBoundWitness ==
    /\ coll = "queue" /\ Len(HeadChain) = 3
    /\ \E t, u \in Threads :
          /\ pc[u] = "qpush_swing" /\ AfterTail = loc[u].new
          /\ pc[t] = "qpush_help" /\ loc[t].ts = tail /\ loc[t].nx = loc[u].new

\* The step in which t's push returns leaves tail at the node t pushed or at a
\* node linked after it.
TailPastPushed(t) ==
    (coll = "queue" /\ pc[t] = "qpush_swing" /\ pc'[t] = "idle") =>
        /\ AddrOf(tail') \in Addrs
        /\ PushIndex(mem[AddrOf(loc[t].new)].data) > 0
        /\ PushIndex(mem[AddrOf(tail')].data)
              >= PushIndex(mem[AddrOf(loc[t].new)].data)

\* C20: when Queue::push returns, tail points at the node it pushed or at a
\* node linked after it, never at a node linked before, whether its own
\* compare-and-swap on tail succeeded or failed.
TailOnReturn == [][\A t \in Threads : TailPastPushed(t)]_vars

\* A push is about to return with a compare-and-swap that will fail: another
\* thread advanced tail over its node, linked a node of its own behind it and
\* swung tail there.
TailOnReturnWitness ==
    /\ coll = "queue"
    /\ \E t \in Threads :
          /\ pc[t] = "qpush_swing"
          /\ ~SameAddr(tail, loc[t].ts)
          /\ mem[AddrOf(loc[t].new)].next = tail
          /\ AfterTail = Null

====
